---- MODULE Spec2Model ----
(***************************************************************************)
(* Model of run_sim.py (hpvsim_nigeria): the screening & treatment cascade *)
(* builder make_st, its eligibility predicates, run_sim and the scenario   *)
(* script.                                                                 *)
(*                                                                         *)
(* Numbers that the Python code holds as floats are modelled as exact      *)
(* rationals [n, d] in lowest terms; a power whose value is not a rational *)
(* of the search range is kept as the unevaluated term [base, exp], and    *)
(* 1 - term as [one_minus].  Floating-point rounding is not modelled.      *)
(***************************************************************************)
EXTENDS Integers, Sequences, FiniteSets, TLC

VARIABLES
    heap,       \* the Python objects allocated so far: Seq of records, id = index
    calls,      \* make_st calls made so far: Seq of [args, ret]
    globals,    \* module-level settings (debug, do_shrink, do_save, save_plots)
    bpc,        \* position of the caller of make_st: "call" | "returned"
    t,          \* sim.t, the index of the current time step
    dt,         \* sim['dt'], the length of a time step in years
    date_screened,  \* sim.people.date_screened: person -> NaN or a time step
    epc,        \* position inside the engine's handling of one step
    elig,       \* the value the last evaluated eligibility predicate returned
    outcomes,   \* label -> bucket -> array of people: each step's outcomes
    epos,       \* index in sim's intervention list of the next one to apply
    produced,   \* labels of the interventions already applied in this time step
    stale,      \* <<reader, label>>: buckets read before being produced this step
    spc,        \* position of the script's __main__ block
    frame,      \* the run_sim call in progress: its arguments, position and sim
    sims,       \* the Sim objects constructed so far: Seq of records, id = index
    files,      \* the files written so far
    events,     \* what has been done so far, in order: Seq of [sim, ev]
    exc,        \* the exception propagating out of run_sim, or "none"
    locals      \* the script's variables

buildVars == <<heap, calls, globals, bpc>>
engVars == <<t, dt, date_screened, epc, elig, outcomes, epos, produced, stale>>

scriptVars == <<spc, frame, sims, files, events, exc, locals>>

vars == <<heap, calls, globals, bpc,
          t, dt, date_screened, epc, elig, outcomes, epos, produced, stale,
          spc, frame, sims, files, events, exc, locals>>

-----------------------------------------------------------------------------
(* Exact rational arithmetic standing for Python float arithmetic.         *)

RECURSIVE GCD(_, _)
GCD(a, b) == IF b = 0 THEN a ELSE GCD(b, a % b)

Abs(x) == IF x < 0 THEN -x ELSE x

Rat(n, d) ==
    LET s == IF d < 0 THEN -1 ELSE 1
        g == GCD(Abs(n), Abs(d))
    IN  [n |-> (s * n) \div g, d |-> (s * d) \div g]

IsRat(x) == "n" \in DOMAIN x

One == Rat(1, 1)
Zero == Rat(0, 1)

RatAdd(a, b) == Rat(a.n * b.d + b.n * a.d, a.d * b.d)
RatSub(a, b) == Rat(a.n * b.d - b.n * a.d, a.d * b.d)
RatDiv(a, b) == Rat(a.n * b.d, a.d * b.n)
RatLess(a, b) == IF a.d = b.d THEN a.n < b.n ELSE a.n * b.d < b.n * a.d
RatLeq(a, b) == a = b \/ RatLess(a, b)

RECURSIVE IntPow(_, _)
IntPow(b, e) == IF e = 0 THEN 1 ELSE b * IntPow(b, e - 1)

RatPowInt(r, k) == [n |-> IntPow(r.n, k), d |-> IntPow(r.d, k)]

\* Largest numerator and denominator of a root the power operator finds exactly.
MaxRoot == 3

RootCandidates == {Rat(n, d) : n \in 0..MaxRoot, d \in 1..MaxRoot}

\* x ** e for a float exponent e = 1/k: the exact k-th root when it is a
\* rational of the search range, otherwise the unevaluated power (an
\* irrational, or for a negative base a complex, number).
Power(x, e) ==
    LET C == {r \in RootCandidates : RatPowInt(r, e.d) = x}
    IN  IF e.n = 1 /\ C # {} THEN CHOOSE r \in C : TRUE
        ELSE [base |-> x, exp |-> e]

\* 1 - x for a float (or complex) x.
OneMinus(x) == IF IsRat(x) THEN RatSub(One, x) ELSE [one_minus |-> x]

-----------------------------------------------------------------------------
(* Module-level settings                                                   *)

InitGlobals == [debug |-> 0, do_shrink |-> TRUE, do_save |-> TRUE, save_plots |-> TRUE]

-----------------------------------------------------------------------------
(* make_st                                                                 *)

age_range == <<30, 50>>

len_age_range == RatDiv(Rat(age_range[2] - age_range[1], 1), Rat(2, 1))

model_annual_screen_prob_noComplement(screen_coverage) ==
    Power(OneMinus(screen_coverage), RatDiv(One, len_age_range))

model_annual_screen_prob(screen_coverage) ==
    OneMinus(Power(OneMinus(screen_coverage), RatDiv(One, len_age_range)))

radiation_prob_noDropoff(treat_coverage) == treat_coverage

radiation_prob(treat_coverage) == RatDiv(treat_coverage, Rat(4, 1))

\* hpv.radiation(): a new product object on every evaluation.
radiation_product_shared(h) ==
    LET old == {i \in 1..Len(h) : h[i].type = "radiation"}
    IN  IF old # {} THEN [heap |-> h, ref |-> CHOOSE i \in old : TRUE]
        ELSE [heap |-> Append(h, [type |-> "radiation", touched |-> FALSE]),
              ref |-> Len(h) + 1]

radiation_product(h) ==
    [heap |-> Append(h, [type |-> "radiation", touched |-> FALSE]),
     ref |-> Len(h) + 1]

st_intvs_noRadiation(screening, assign_treatment, ablation, excision, radiation) ==
    <<screening, assign_treatment, ablation, excision>>

st_intvs_excisionFirst(screening, assign_treatment, ablation, excision, radiation) ==
    <<screening, assign_treatment, excision, ablation, radiation>>

st_intvs(screening, assign_treatment, ablation, excision, radiation) ==
    <<screening, assign_treatment, ablation, excision, radiation>>

\* The objects make_st constructs, appended to heap h, and the list it returns.
make_st(h, product, screen_coverage, treat_coverage, start_year) ==
    LET ar == Len(h) + 1
        h1 == Append(h, [type |-> "list", items |-> age_range, touched |-> FALSE])
        screening == Len(h1) + 1
        h2 == Append(h1, [type |-> "routine_screening",
                          prob |-> model_annual_screen_prob(screen_coverage),
                          eligibility |-> "screen_eligible",
                          start_year |-> start_year,
                          product |-> [name |-> product],
                          age_range |-> ar,
                          label |-> "screening",
                          touched |-> FALSE])
        assign_treatment == Len(h2) + 1
        h3 == Append(h2, [type |-> "routine_triage",
                          start_year |-> start_year,
                          prob |-> One,
                          annual_prob |-> FALSE,
                          product |-> [name |-> "tx_assigner"],
                          eligibility |-> "screen_positive",
                          label |-> "tx assigner",
                          touched |-> FALSE])
        ablation == Len(h3) + 1
        h4 == Append(h3, [type |-> "treat_num",
                          prob |-> treat_coverage,
                          annual_prob |-> FALSE,
                          product |-> [name |-> "ablation"],
                          eligibility |-> "ablation_eligible",
                          label |-> "ablation",
                          touched |-> FALSE])
        excision == Len(h4) + 1
        h5 == Append(h4, [type |-> "treat_num",
                          prob |-> treat_coverage,
                          annual_prob |-> FALSE,
                          product |-> [name |-> "excision"],
                          eligibility |-> "excision_eligible",
                          label |-> "excision",
                          touched |-> FALSE])
        rp == radiation_product(h5)
        radiation == Len(rp.heap) + 1
        h6 == Append(rp.heap, [type |-> "treat_num",
                               prob |-> radiation_prob(treat_coverage),
                               annual_prob |-> FALSE,
                               product |-> [ref |-> rp.ref],
                               eligibility |-> "radiation_eligible",
                               label |-> "radiation",
                               touched |-> FALSE])
    IN  [heap |-> h6,
         ret |-> st_intvs(screening, assign_treatment, ablation, excision, radiation)]

-----------------------------------------------------------------------------
(* Floats with NaN, and the arrays the eligibility predicates work on.     *)

NaN == [nan |-> TRUE]
isnan(x) == "nan" \in DOMAIN x

\* x + y and a > b on floats: NaN propagates through +, and compares FALSE.
FloatAdd(x, y) == IF isnan(x) \/ isnan(y) THEN NaN ELSE RatAdd(x, y)
FloatGreater(a, b) == IF isnan(a) \/ isnan(b) THEN FALSE ELSE RatLess(b, a)

NPeople == 2
People == 1..NPeople

SetOf(seq) == {seq[i] : i \in 1..Len(seq)}

\* All the lists that hold each member of S exactly once.
Perms(S) ==
    {f \in [1..Cardinality(S) -> S] : \A i, j \in 1..Cardinality(S) : i # j => f[i] # f[j]}

RECURSIVE SortedSeq(_)
SortedSeq(S) ==
    IF S = {} THEN <<>>
    ELSE LET m == CHOOSE x \in S : \A y \in S : x <= y
         IN  <<m>> \o SortedSeq(S \ {m})

EmptyOutcomes ==
    [l \in {"screening", "tx assigner", "ablation", "excision", "radiation"} |->
        IF l = "screening" THEN [positive |-> <<>>, negative |-> <<>>]
        ELSE IF l = "tx assigner" THEN [ablation |-> <<>>, excision |-> <<>>, radiation |-> <<>>]
        ELSE [successful |-> <<>>, unsuccessful |-> <<>>]]

NoFrame == [rpc |-> "none"]

NoLocals == [baseline_st |-> <<>>, scenario_st |-> <<>>, sim_baseline |-> 0,
             sim_scenario |-> 0, res0 |-> <<>>, res1 |-> <<>>]

ScriptIdle ==
    /\ spc = "idle"
    /\ frame = NoFrame
    /\ sims = <<>>
    /\ files = {}
    /\ events = <<>>
    /\ exc = "none"
    /\ locals = NoLocals

EngIdle ==
    /\ t = 0
    /\ dt = One
    /\ date_screened = [p \in People |-> NaN]
    /\ epc = "idle"
    /\ elig = {}
    /\ outcomes = EmptyOutcomes
    /\ epos = 1
    /\ produced = {}
    /\ stale = {}

-----------------------------------------------------------------------------
(* The eligibility lambdas of make_st.  sim.get_intervention(l).outcomes   *)
(* is o[l].                                                                *)

screen_eligible_atLeast(simt, simdt, dates) ==
    {p \in DOMAIN dates :
        isnan(dates[p]) \/ ~FloatGreater(FloatAdd(dates[p], RatDiv(Rat(5, 1), simdt)), Rat(simt, 1))}

\* The people for whom the boolean mask is True.
screen_eligible(simt, simdt, dates) ==
    {p \in DOMAIN dates :
        isnan(dates[p]) \/ FloatGreater(Rat(simt, 1), FloatAdd(dates[p], RatDiv(Rat(5, 1), simdt)))}

screen_positive(o) == o["screening"].positive

ablation_eligible(o) == o["tx assigner"].ablation

excision_eligible_noSet(o) == {o["tx assigner"].excision \o o["ablation"].unsuccessful}

\* list(set(a.tolist() + b.tolist())): the order in which list() walks the
\* set is not fixed by the language, so every order is a possible result.
excision_eligible(o) == Perms(SetOf(o["tx assigner"].excision \o o["ablation"].unsuccessful))

radiation_eligible(o) == o["tx assigner"].radiation

\* The labels each lambda passes to sim.get_intervention.
Reads(fn) ==
    CASE fn = "screen_eligible" -> {}
      [] fn = "screen_positive" -> {"screening"}
      [] fn = "ablation_eligible" -> {"tx assigner"}
      [] fn = "excision_eligible" -> {"tx assigner", "ablation"}
      [] fn = "radiation_eligible" -> {"tx assigner"}

\* The possible values of a step's eligibility predicate, as arrays.
Eligible(fn, simt, simdt, dates, o) ==
    CASE fn = "screen_eligible" -> {SortedSeq(screen_eligible(simt, simdt, dates))}
      [] fn = "screen_positive" -> {screen_positive(o)}
      [] fn = "ablation_eligible" -> {ablation_eligible(o)}
      [] fn = "excision_eligible" -> excision_eligible(o)
      [] fn = "radiation_eligible" -> {radiation_eligible(o)}

-----------------------------------------------------------------------------
(* The engine applying the screening step over many time steps.            *)

MaxT == 22

\* dt = [0.25, 1.0][debug]
DtChoices == {Rat(1, 4), Rat(1, 1)}

DefaultCascade == make_st(<<>>, "hpv", Rat(3, 20), Rat(7, 10), 2020)

InitScreen ==
    /\ ScriptIdle
    /\ heap = DefaultCascade.heap
    /\ calls = <<[args |-> [product |-> "hpv", screen_coverage |-> Rat(3, 20),
                            treat_coverage |-> Rat(7, 10), start_year |-> 2020],
                  ret |-> DefaultCascade.ret]>>
    /\ globals = InitGlobals
    /\ bpc = "returned"
    /\ t = 0
    /\ dt \in DtChoices
    /\ date_screened = [p \in People |-> NaN]
    /\ epc = "check"
    /\ elig = {}
    /\ outcomes = EmptyOutcomes
    /\ epos = 1
    /\ produced = {}
    /\ stale = {}

\* The engine evaluates the screening step's eligibility at time step t.
ScreenCheck ==
    /\ epc = "check"
    /\ t <= MaxT
    /\ elig' = screen_eligible(t, dt, date_screened)
    /\ epc' = "deliver"
    /\ UNCHANGED <<buildVars, scriptVars, t, dt, date_screened, outcomes, epos, produced, stale>>

\* The engine screens some of the eligible people, dates their screen with
\* the current time step, and moves to the next time step.
ScreenDeliver ==
    /\ epc = "deliver"
    /\ \E screened \in SUBSET elig :
          date_screened' = [p \in People |->
                               IF p \in screened THEN Rat(t, 1) ELSE date_screened[p]]
    /\ t' = t + 1
    /\ epc' = "check"
    /\ UNCHANGED <<buildVars, scriptVars, dt, elig, outcomes, epos, produced, stale>>

NextScreen == ScreenCheck \/ ScreenDeliver

SpecScreen == InitScreen /\ [][NextScreen]_vars

-----------------------------------------------------------------------------
(* The engine applying the whole cascade, in list order, each time step.   *)

MaxCascadeT == 2

\* sim['interventions']: the list make_st returned, passed on unmodified.
Interventions == calls[1].ret

InitCascade ==
    /\ ScriptIdle
    /\ heap = DefaultCascade.heap
    /\ calls = <<[args |-> [product |-> "hpv", screen_coverage |-> Rat(3, 20),
                            treat_coverage |-> Rat(7, 10), start_year |-> 2020],
                  ret |-> DefaultCascade.ret]>>
    /\ globals = InitGlobals
    /\ bpc = "returned"
    /\ t = 0
    /\ dt \in DtChoices
    /\ date_screened = [p \in People |-> NaN]
    /\ epc = "apply"
    /\ elig = <<>>
    /\ outcomes = EmptyOutcomes
    /\ epos = 1
    /\ produced = {}
    /\ stale = {}

\* What applying a step to the eligible people e can leave behind: the
\* step's new outcome buckets and the screen dates.
Deliver(step, e) ==
    CASE step.type = "routine_screening" ->
            {[out |-> [positive |-> SortedSeq(pos), negative |-> SortedSeq(scr \ pos)],
              dates |-> [p \in People |-> IF p \in scr THEN Rat(t, 1) ELSE date_screened[p]]] :
                <<scr, pos>> \in {x \in (SUBSET SetOf(e)) \X (SUBSET SetOf(e)) : x[2] \subseteq x[1]}}
      [] step.type = "routine_triage" ->
            {[out |-> [b \in {"ablation", "excision", "radiation"} |->
                          SortedSeq({p \in SetOf(e) : f[p] = b})],
              dates |-> date_screened] :
                f \in [SetOf(e) -> {"ablation", "excision", "radiation"}]}
      [] step.type = "treat_num" ->
            {[out |-> [successful |-> SortedSeq(suc), unsuccessful |-> SortedSeq(tr \ suc)],
              dates |-> date_screened] :
                <<tr, suc>> \in {x \in (SUBSET SetOf(e)) \X (SUBSET SetOf(e)) : x[2] \subseteq x[1]}}

\* The engine applies the next intervention of the list: it evaluates the
\* step's eligibility predicate and replaces the step's outcome buckets.
ApplyIntervention ==
    /\ epc = "apply"
    /\ t < MaxCascadeT
    /\ epos <= Len(Interventions)
    /\ LET step == heap[Interventions[epos]]
       IN  /\ \E e \in Eligible(step.eligibility, t, dt, date_screened, outcomes) :
                /\ elig' = e
                /\ \E d \in Deliver(step, e) :
                      /\ outcomes' = [outcomes EXCEPT ![step.label] = d.out]
                      /\ date_screened' = d.dates
           /\ stale' = stale \cup {<<step.label, l>> : l \in Reads(step.eligibility) \ produced}
           /\ produced' = produced \cup {step.label}
    /\ epos' = epos + 1
    /\ UNCHANGED <<buildVars, scriptVars, t, dt, epc>>

\* All interventions applied: the engine moves to the next time step.
EndTimestep ==
    /\ epc = "apply"
    /\ epos = Len(Interventions) + 1
    /\ t' = t + 1
    /\ epos' = 1
    /\ produced' = {}
    /\ UNCHANGED <<buildVars, scriptVars, dt, date_screened, epc, elig, outcomes, stale>>

NextCascade == ApplyIntervention \/ EndTimestep

SpecCascade == InitCascade /\ [][NextCascade]_vars

-----------------------------------------------------------------------------
(* excision_eligible on arbitrary outcome buckets.                         *)

MaxBucketLen == 2

Buckets == UNION {[1..n -> People] : n \in 0..MaxBucketLen}

InitExcision ==
    /\ ScriptIdle
    /\ heap = <<>>
    /\ calls = <<>>
    /\ globals = InitGlobals
    /\ bpc = "returned"
    /\ t = 0
    /\ dt = One
    /\ date_screened = [p \in People |-> NaN]
    /\ epc = "check"
    /\ elig = <<>>
    /\ \E a, b \in Buckets :
          outcomes = [EmptyOutcomes EXCEPT !["tx assigner"].excision = a,
                                           !["ablation"].unsuccessful = b]
    /\ epos = 1
    /\ produced = {}
    /\ stale = {}

ExcisionCheck ==
    /\ epc = "check"
    /\ elig' \in excision_eligible(outcomes)
    /\ epc' = "deliver"
    /\ UNCHANGED <<buildVars, scriptVars, t, dt, date_screened, outcomes, epos, produced, stale>>

NextExcision == ExcisionCheck

SpecExcision == InitExcision /\ [][NextExcision]_vars

-----------------------------------------------------------------------------
(* A caller of make_st: arguments drawn from small sets.                   *)

Products == {"hpv", "via"}

StartYears == {2020, 2030}

\* Coverages 1 - r^10 whose annual probability is an exact rational, the
\* default 0.15, and the out-of-range values -1023 (= 1 - 2^10) and 2.
ScreenCoverages ==
    {OneMinus(RatPowInt(r, 10)) : r \in {Rat(0, 1), Rat(1, 3), Rat(1, 2), Rat(2, 3), Rat(1, 1), Rat(2, 1)}}
        \cup {Rat(3, 20), Rat(2, 1)}

TreatCoverages == {Rat(-1, 2), Rat(0, 1), Rat(3, 10), Rat(7, 10), Rat(1, 1), Rat(3, 2)}

ArgSets == [product : Products, screen_coverage : ScreenCoverages,
            treat_coverage : TreatCoverages, start_year : StartYears]

InitBuild ==
    /\ EngIdle
    /\ ScriptIdle
    /\ heap = <<>>
    /\ \E a \in ArgSets : calls = <<[args |-> a, ret |-> <<>>]>>
    /\ globals = InitGlobals
    /\ bpc = "call"

MakeSt ==
    /\ bpc = "call"
    /\ LET a == calls[Len(calls)].args
           r == make_st(heap, a.product, a.screen_coverage, a.treat_coverage, a.start_year)
       IN  /\ heap' = r.heap
           /\ calls' = [calls EXCEPT ![Len(calls)].ret = r.ret]
    /\ bpc' = "returned"
    /\ UNCHANGED <<globals, engVars, scriptVars>>

NextBuild == MakeSt

SpecBuild == InitBuild /\ [][NextBuild]_vars

-----------------------------------------------------------------------------
(* Several make_st calls, and later changes to the objects they returned.  *)

MaxCalls == 2
MaxTouched == 2

ShareArgSets == [product : {"hpv"}, screen_coverage : {Rat(3, 20), Rat(1023, 1024)},
                 treat_coverage : {Rat(3, 10), Rat(7, 10)}, start_year : {2020}]

InitShare ==
    /\ EngIdle
    /\ ScriptIdle
    /\ heap = <<>>
    /\ calls = <<>>
    /\ globals = InitGlobals
    /\ bpc = "returned"

\* One whole call of make_st, from call to return.
MakeStCall ==
    /\ Len(calls) < MaxCalls
    /\ \E a \in ShareArgSets :
          LET r == make_st(heap, a.product, a.screen_coverage, a.treat_coverage, a.start_year)
          IN  /\ heap' = r.heap
              /\ calls' = Append(calls, [args |-> a, ret |-> r.ret])
    /\ UNCHANGED <<globals, bpc, engVars, scriptVars>>

\* The objects a returned step list reaches: the steps, the age_range list
\* and the product object they hold.
Reach(h, ret) ==
    {ret[k] : k \in 1..Len(ret)}
        \cup {h[ret[k]].age_range : k \in {x \in 1..Len(ret) : "age_range" \in DOMAIN h[ret[x]]}}
        \cup {h[ret[k]].product.ref : k \in {x \in 1..Len(ret) : "ref" \in DOMAIN h[ret[x]].product}}

\* The holder of a returned list (the engine initialising and applying the
\* steps, or the caller) changes one object the list reaches.
Touch ==
    /\ Cardinality({i \in 1..Len(heap) : heap[i].touched}) < MaxTouched
    /\ \E c \in 1..Len(calls) : \E id \in Reach(heap, calls[c].ret) :
          /\ ~heap[id].touched
          /\ heap' = [heap EXCEPT ![id].touched = TRUE]
    /\ UNCHANGED <<calls, globals, bpc, engVars, scriptVars>>

NextShare == MakeStCall \/ Touch

SpecShare == InitShare /\ [][NextShare]_vars

-----------------------------------------------------------------------------
(* make_sim and run_sim                                                    *)

None == [none |-> TRUE]
IsNone(x) == "none" \in DOMAIN x

\* sc.mergedicts(pars, calib_pars): the keys of the second override the first.
mergedicts(a, b) ==
    [k \in DOMAIN a \cup DOMAIN b |-> IF k \in DOMAIN b THEN b[k] ELSE a[k]]

\* The Sim object make_sim constructs.  run_sim passes no seed, so make_sim
\* uses its own default seed=1 for pars.rand_seed.
make_sim(location, calib_pars, debug, interventions, seed, end) ==
    LET pars == [n_agents |-> IF debug = 0 THEN 20000 ELSE 1000,
                 dt |-> IF debug = 0 THEN Rat(1, 4) ELSE Rat(1, 1),
                 start |-> IF debug = 0 THEN 1960 ELSE 1980,
                 end |-> end,
                 location |-> location,
                 ms_agent_ratio |-> 100,
                 verbose |-> Zero,
                 rand_seed |-> seed]
    IN  [pars |-> IF IsNone(calib_pars) THEN pars ELSE mergedicts(pars, calib_pars),
         interventions |-> interventions,
         label |-> None,
         meta |-> None,
         ran |-> FALSE,
         shrunk |-> FALSE,
         results |-> None]

set_seed_keepDefault(sim, location, seed) ==
    [sim EXCEPT !.label = [location |-> location, seed |-> seed]]

\* sim['rand_seed'] = seed; sim.label = f'{location}--{seed}'
set_seed(sim, location, seed) ==
    [sim EXCEPT !.pars.rand_seed = seed,
                !.label = [location |-> location, seed |-> seed]]

\* sim.meta = meta if meta is not None else sc.objdict(), then
\* sim.meta.location = location (on the caller's object when one was passed).
store_meta(meta, location) ==
    IF IsNone(meta) THEN [location |-> location]
    ELSE mergedicts(meta, [location |-> location])

\* f'results/{location}.sim'
SimFile(location) == <<"results/", location, ".sim">>

MaxCancers == 2

\* What the engine can raise.
EngineErrors == {"engine error"}

Event(e) == Append(events, [sim |-> frame.sim, ev |-> e])

Raise(e) ==
    /\ exc' = e
    /\ frame' = [frame EXCEPT !.rpc = "raised"]

RS_MakeSim ==
    /\ frame.rpc = "make_sim"
    /\ \/ /\ sims' = Append(sims, make_sim(frame.args.location, frame.args.calib_pars,
                                           frame.args.debug, frame.args.interventions,
                                           1, frame.args.end))
          /\ frame' = [frame EXCEPT !.rpc = "seed", !.sim = Len(sims) + 1]
          /\ events' = Append(events, [sim |-> Len(sims) + 1, ev |-> "make_sim"])
          /\ UNCHANGED exc
       \/ /\ \E e \in EngineErrors : Raise(e)
          /\ UNCHANGED <<sims, events>>
    /\ UNCHANGED <<buildVars, engVars, spc, files, locals>>

RS_SetSeed ==
    /\ frame.rpc = "seed"
    /\ sims' = [sims EXCEPT ![frame.sim] = set_seed(@, frame.args.location, frame.args.seed)]
    /\ frame' = [frame EXCEPT !.rpc = "meta"]
    /\ events' = Event("seed")
    /\ UNCHANGED <<buildVars, engVars, spc, files, exc, locals>>

RS_StoreMeta ==
    /\ frame.rpc = "meta"
    /\ sims' = [sims EXCEPT ![frame.sim].meta = store_meta(frame.args.meta, frame.args.location)]
    /\ frame' = [frame EXCEPT !.rpc = "run",
                              !.args.meta = IF IsNone(@) THEN @
                                            ELSE store_meta(@, frame.args.location)]
    /\ events' = Event("meta")
    /\ UNCHANGED <<buildVars, engVars, spc, files, exc, locals>>

\* sim['verbose'] = verbose; sim.run(): the engine initialises and applies
\* the sim's interventions and fills the results, or raises.
RS_Run ==
    /\ frame.rpc = "run"
    /\ \/ /\ \E c \in 0..MaxCancers :
                sims' = [sims EXCEPT ![frame.sim].pars.verbose = frame.args.verbose,
                                     ![frame.sim].ran = TRUE,
                                     ![frame.sim].results = [cancers |-> c]]
          /\ heap' = [i \in 1..Len(heap) |->
                         IF i \in Reach(heap, sims[frame.sim].interventions)
                         THEN [heap[i] EXCEPT !.touched = TRUE] ELSE heap[i]]
          /\ frame' = [frame EXCEPT !.rpc = "shrink"]
          /\ events' = Event("run")
          /\ UNCHANGED exc
       \/ /\ \E e \in EngineErrors : Raise(e)
          /\ sims' = [sims EXCEPT ![frame.sim].pars.verbose = frame.args.verbose]
          /\ UNCHANGED <<heap, events>>
    /\ UNCHANGED <<calls, globals, bpc, engVars, spc, files, locals>>

RS_Shrink ==
    /\ frame.rpc = "shrink"
    /\ \/ /\ sims' = [sims EXCEPT ![frame.sim].shrunk = TRUE]
          /\ frame' = [frame EXCEPT !.rpc = "save"]
          /\ events' = Event("shrink")
          /\ UNCHANGED exc
       \/ /\ \E e \in EngineErrors : Raise(e)
          /\ UNCHANGED <<sims, events>>
    /\ UNCHANGED <<buildVars, engVars, spc, files, locals>>

\* if do_save: sim.save(...); return sim
RS_SaveReturn ==
    /\ frame.rpc = "save"
    /\ \/ /\ frame.args.do_save
          /\ files' = files \cup {SimFile(frame.args.location)}
          /\ events' = Event("save")
          /\ frame' = [frame EXCEPT !.rpc = "returned"]
          /\ UNCHANGED exc
       \/ /\ frame.args.do_save
          /\ \E e \in EngineErrors : Raise(e)
          /\ UNCHANGED <<files, events>>
       \/ /\ ~frame.args.do_save
          /\ frame' = [frame EXCEPT !.rpc = "returned"]
          /\ UNCHANGED <<files, events, exc>>
    /\ UNCHANGED <<buildVars, engVars, spc, sims, locals>>

RunSimStep == RS_MakeSim \/ RS_SetSeed \/ RS_StoreMeta \/ RS_Run \/ RS_Shrink \/ RS_SaveReturn

\* run_sim's defaults (line 158-160).
RunSimDefaults ==
    [location |-> "None", interventions |-> <<>>, debug |-> 0, seed |-> 1,
     verbose |-> Rat(1, 5), do_save |-> FALSE, end |-> 2020,
     calib_pars |-> None, meta |-> None]

NewFrame(args) == [rpc |-> "make_sim", args |-> args, sim |-> 0]

-----------------------------------------------------------------------------
(* A caller of run_sim: arguments drawn from small sets.                   *)

RunSimArgSets ==
    [location : {"None", "nigeria"}, interventions : {<<>>, DefaultCascade.ret},
     debug : {0, 1}, seed : {1, 2}, verbose : {Rat(1, 5)}, do_save : BOOLEAN,
     end : {2020}, calib_pars : {None, [rand_seed |-> 7]},
     meta : {None, [location |-> "kenya", note |-> "calibrated"]}]

InitRunSim ==
    /\ EngIdle
    /\ heap = DefaultCascade.heap
    /\ calls = <<[args |-> [product |-> "hpv", screen_coverage |-> Rat(3, 20),
                            treat_coverage |-> Rat(7, 10), start_year |-> 2020],
                  ret |-> DefaultCascade.ret]>>
    /\ globals = InitGlobals
    /\ bpc = "returned"
    /\ spc = "idle"
    /\ \E a \in RunSimArgSets : frame = NewFrame(a)
    /\ sims = <<>>
    /\ files = {}
    /\ events = <<>>
    /\ exc = "none"
    /\ locals = NoLocals

NextRunSim == RunSimStep

SpecRunSim == InitRunSim /\ [][NextRunSim]_vars

-----------------------------------------------------------------------------
(* The script's __main__ block with to_run = ['run_scenario'].             *)

InitScript ==
    /\ EngIdle
    /\ heap = <<>>
    /\ calls = <<>>
    /\ globals = InitGlobals
    /\ bpc = "returned"
    /\ spc = "baseline_st"
    /\ frame = NoFrame
    /\ sims = <<>>
    /\ files = {}
    /\ events = <<>>
    /\ exc = "none"
    /\ locals = NoLocals

ScriptMakeSt(a, var) ==
    LET r == make_st(heap, a.product, a.screen_coverage, a.treat_coverage, a.start_year)
    IN  /\ heap' = r.heap
        /\ calls' = Append(calls, [args |-> a, ret |-> r.ret])
        /\ locals' = [locals EXCEPT ![var] = r.ret]

\* baseline_st = make_st(screen_coverage=0.05, treat_coverage=0.3)
S_BaselineSt ==
    /\ spc = "baseline_st"
    /\ ScriptMakeSt([product |-> "hpv", screen_coverage |-> Rat(1, 20),
                     treat_coverage |-> Rat(3, 10), start_year |-> 2020], "baseline_st")
    /\ spc' = "scenario_st"
    /\ UNCHANGED <<globals, bpc, engVars, frame, sims, files, events, exc>>

\* scenario_st = make_st(screen_coverage=0.50, treat_coverage=0.7)
S_ScenarioSt ==
    /\ spc = "scenario_st"
    /\ ScriptMakeSt([product |-> "hpv", screen_coverage |-> Rat(1, 2),
                     treat_coverage |-> Rat(7, 10), start_year |-> 2020], "scenario_st")
    /\ spc' = "call_baseline"
    /\ UNCHANGED <<globals, bpc, engVars, frame, sims, files, events, exc>>

\* The arguments of run_sim(end=2060, interventions=baseline_st, debug=debug)
baseline_call(l, g) ==
    [RunSimDefaults EXCEPT !.end = 2060, !.interventions = l.baseline_st, !.debug = g.debug]

scenario_call_baselineSt(l, g) ==
    [RunSimDefaults EXCEPT !.end = 2060, !.interventions = l.baseline_st, !.debug = g.debug]

\* The arguments of run_sim(end=2060, interventions=scenario_st, debug=debug)
scenario_call(l, g) ==
    [RunSimDefaults EXCEPT !.end = 2060, !.interventions = l.scenario_st, !.debug = g.debug]

\* sim_baseline = run_sim(end=2060, interventions=baseline_st, debug=debug): the call
S_CallBaseline ==
    /\ spc = "call_baseline"
    /\ frame' = NewFrame(baseline_call(locals, globals))
    /\ spc' = "in_baseline"
    /\ UNCHANGED <<buildVars, engVars, sims, files, events, exc, locals>>

\* run_sim has returned sim_baseline;
\* sim_scenario = run_sim(end=2060, interventions=scenario_st, debug=debug): the call
S_CallScenario ==
    /\ spc = "in_baseline"
    /\ frame.rpc = "returned"
    /\ locals' = [locals EXCEPT !.sim_baseline = frame.sim]
    /\ frame' = NewFrame(scenario_call(locals, globals))
    /\ spc' = "in_scenario"
    /\ UNCHANGED <<buildVars, engVars, sims, files, events, exc>>

\* run_sim has returned sim_scenario; the results of both sims are read and plotted.
S_Plot ==
    /\ spc = "in_scenario"
    /\ frame.rpc = "returned"
    /\ locals' = [locals EXCEPT !.sim_scenario = frame.sim,
                                !.res0 = sims[locals.sim_baseline].results,
                                !.res1 = sims[frame.sim].results]
    /\ events' = Append(events, [sim |-> frame.sim, ev |-> "plot"])
    /\ frame' = NoFrame
    /\ spc' = "done"
    /\ UNCHANGED <<buildVars, engVars, sims, files, exc>>

\* An exception out of run_sim is not caught: the script ends with it.
S_Abort ==
    /\ spc \in {"in_baseline", "in_scenario"}
    /\ frame.rpc = "raised"
    /\ spc' = "aborted"
    /\ UNCHANGED <<buildVars, engVars, frame, sims, files, events, exc, locals>>

NextScript ==
    \/ S_BaselineSt \/ S_ScenarioSt \/ S_CallBaseline \/ S_CallScenario \/ S_Plot \/ S_Abort
    \/ RunSimStep

SpecScript == InitScript /\ [][NextScript]_vars

-----------------------------------------------------------------------------
(* Properties of run_sim and of the script                                 *)

EventNames == [i \in 1..Len(events) |-> events[i].ev]

IsPrefix(a, b) == Len(a) <= Len(b) /\ \A i \in 1..Len(a) : a[i] = b[i]

RunSimOrder(do_save) ==
    IF do_save THEN <<"make_sim", "seed", "meta", "run", "shrink", "save">>
    ELSE <<"make_sim", "seed", "meta", "run", "shrink">>

\* C10: run_sim builds the sim, sets seed, label and metadata, runs,
\* shrinks and then saves, in this order; results/<location>.sim is written
\* iff do_save, and only after run and shrink; when the engine raises, no
\* file is written and the engine's error is what leaves run_sim; at return
\* the sim's rand_seed is the seed argument and sim.meta.location the
\* location argument, whatever calib_pars and meta were passed.
C10_RunSimOrderAndResult ==
    frame.rpc # "none" =>
        LET a == frame.args
            f == SimFile(a.location)
        IN  /\ IsPrefix(EventNames, RunSimOrder(a.do_save))
            /\ files \subseteq {f}
            /\ f \in files =>
                  /\ a.do_save
                  /\ sims[frame.sim].ran
                  /\ sims[frame.sim].shrunk
            /\ frame.rpc = "returned" =>
                  /\ EventNames = RunSimOrder(a.do_save)
                  /\ f \in files <=> a.do_save
                  /\ exc = "none"
                  /\ sims[frame.sim].pars.rand_seed = a.seed
                  /\ sims[frame.sim].meta.location = a.location
            /\ frame.rpc = "raised" <=> exc # "none"
            /\ exc # "none" => (exc \in EngineErrors /\ files = {})

C10_Witness ==
    /\ frame.rpc = "returned"
    /\ frame.args.do_save
    /\ frame.args.seed = 2
    /\ frame.args.location = "nigeria"
    /\ ~IsNone(frame.args.calib_pars)
    /\ ~IsNone(frame.args.meta)
    /\ sims[frame.sim].meta.note = "calibrated"
    /\ SimFile("nigeria") \in files

RunEvents == {i \in 1..Len(events) : events[i].ev = "run"}

Finished(i) == i \in 1..Len(sims) /\ sims[i].ran /\ sims[i].shrunk

\* C9: the script invokes the engine at most twice and, when it completes,
\* exactly twice; every step of the baseline run precedes every step of the
\* scenario run, which starts only once the baseline sim has run and been
\* shrunk; each run has its own cascade, the two share no object, and no
\* object of the scenario cascade has been changed before the scenario run;
\* the results are read only after both runs have finished.
C9_TwoSequentialRuns ==
    /\ Cardinality(RunEvents) <= 2
    /\ Len(sims) <= 2
    /\ spc = "done" => (Cardinality(RunEvents) = 2 /\ Finished(1) /\ Finished(2))
    /\ \A i, j \in 1..Len(events) : i < j => events[i].sim <= events[j].sim
    /\ (spc = "in_scenario" \/ Len(sims) = 2) => Finished(1)
    /\ Len(sims) >= 1 => sims[1].interventions = calls[1].ret
    /\ Len(sims) = 2 =>
          /\ sims[2].interventions = calls[2].ret
          /\ Reach(heap, sims[1].interventions) \cap Reach(heap, sims[2].interventions) = {}
          /\ ~sims[2].ran => \A id \in Reach(heap, sims[2].interventions) : ~heap[id].touched
    /\ (locals.res0 # <<>> \/ locals.res1 # <<>> \/ "plot" \in SetOf(EventNames)) =>
          /\ spc = "done"
          /\ locals.res0 = sims[1].results
          /\ locals.res1 = sims[2].results
          /\ EventNames[Len(events)] = "plot"

C9_Witness ==
    /\ spc = "done"
    /\ locals.res0 = [cancers |-> 2]
    /\ locals.res1 = [cancers |-> 0]
    /\ heap[calls[1].ret[1]].touched
    /\ heap[calls[2].ret[1]].touched

-----------------------------------------------------------------------------
(* Properties of the eligibility predicates                                *)

StepAt(i) == heap[Interventions[i]]

ExpectedReads(label) ==
    CASE label = "screening" -> {}
      [] label = "tx assigner" -> {"screening"}
      [] label = "ablation" -> {"tx assigner"}
      [] label = "excision" -> {"tx assigner", "ablation"}
      [] label = "radiation" -> {"tx assigner"}

\* C2: every step of the cascade reads outcome buckets only of steps that
\* stand strictly earlier in the list (screening none, tx assigner only
\* screening, ablation and radiation only tx assigner, excision only tx
\* assigner and ablation), and with the steps applied in list order no
\* predicate reads a bucket that was not yet produced in the same time step.
C2_ReadsOnlyEarlierSteps ==
    /\ \A i \in 1..Len(Interventions) :
          /\ Reads(StepAt(i).eligibility) = ExpectedReads(StepAt(i).label)
          /\ \A l \in Reads(StepAt(i).eligibility) :
                \E j \in 1..(i - 1) : StepAt(j).label = l
    /\ stale = {}

C2_Witness ==
    /\ t = 1
    /\ epos = 5
    /\ date_screened[1] = Rat(0, 1)
    /\ outcomes["tx assigner"].ablation = <<2>>
    /\ outcomes["ablation"].unsuccessful = <<2>>
    /\ elig = <<2>>
    /\ produced = {"screening", "tx assigner", "ablation", "excision"}

\* 5 / dt, in time steps.
ScreenInterval == (5 * dt.d) \div dt.n

Count(seq, x) == Cardinality({i \in 1..Len(seq) : seq[i] = x})

\* C4: whatever the two buckets hold, the excision eligibility list holds
\* every member of either bucket exactly once and nobody else.
C4_ExcisionUnion ==
    epc = "deliver" =>
        \A p \in People :
            Count(elig, p) =
                IF p \in SetOf(outcomes["tx assigner"].excision)
                        \cup SetOf(outcomes["ablation"].unsuccessful)
                THEN 1 ELSE 0

C4_Witness ==
    /\ epc = "deliver"
    /\ outcomes["tx assigner"].excision = <<2, 2>>
    /\ outcomes["ablation"].unsuccessful = <<1, 2>>
    /\ elig = <<2, 1>>

-----------------------------------------------------------------------------
(* Properties of make_st                                                   *)

LastCall == calls[Len(calls)]
Returned == bpc = "returned" /\ Len(calls) > 0
InUnit(x) == RatLeq(Zero, x) /\ RatLeq(x, One)
CascadeLabels == <<"screening", "tx assigner", "ablation", "excision", "radiation">>

\* C1: whatever the arguments, make_st returns exactly five steps labelled
\* screening, tx assigner, ablation, excision, radiation in that order, all
\* of them different objects.
C1_FiveStepsInOrder ==
    Returned =>
        LET ret == LastCall.ret
        IN  /\ Len(ret) = 5
            /\ [k \in 1..Len(ret) |-> heap[ret[k]].label] = CascadeLabels
            /\ \A i, j \in 1..Len(ret) : i # j => ret[i] # ret[j]

C1_Witness ==
    /\ Returned
    /\ LastCall.args.product = "via"
    /\ LastCall.args.start_year = 2030
    /\ LastCall.args.screen_coverage = Rat(2, 1)
    /\ Len(LastCall.ret) = 5

\* C5: a call with screen_coverage or treat_coverage outside [0,1] is
\* rejected before any step is constructed: it returns no steps and has
\* allocated nothing.
C5_RejectsOutOfRange ==
    (Returned /\ ~(InUnit(LastCall.args.screen_coverage) /\ InUnit(LastCall.args.treat_coverage)))
        => (LastCall.ret = <<>> /\ heap = <<>>)

C7_TreatmentProbs ==
    Returned =>
        LET tc == LastCall.args.treat_coverage
            ret == LastCall.ret
            pr == heap[ret[5]].prob
        IN  /\ Rat(4 * pr.n, pr.d) = tc
            /\ heap[ret[3]].prob = tc
            /\ heap[ret[4]].prob = tc
            /\ heap[ret[2]].prob = One

C7_Witness ==
    /\ Returned
    /\ LastCall.args.treat_coverage = Rat(7, 10)
    /\ LastCall.args.screen_coverage = Rat(3, 20)
    /\ heap[LastCall.ret[5]].prob = Rat(7, 40)

\* What a step does, apart from the run-time state kept on it.
Behaviour(h, id) ==
    [type |-> h[id].type, label |-> h[id].label, prob |-> h[id].prob,
     eligibility |-> h[id].eligibility,
     product |-> IF "ref" \in DOMAIN h[id].product
                 THEN h[h[id].product.ref].type ELSE h[id].product.name,
     start_year |-> IF "start_year" \in DOMAIN h[id] THEN h[id].start_year ELSE 0,
     age_range |-> IF "age_range" \in DOMAIN h[id] THEN h[h[id].age_range].items ELSE <<>>]

C8_NoSharing ==
    \A i, j \in 1..Len(calls) :
        i # j =>
            /\ Reach(heap, calls[i].ret) \cap Reach(heap, calls[j].ret) = {}
            /\ calls[i].args = calls[j].args =>
                  /\ Len(calls[i].ret) = Len(calls[j].ret)
                  /\ \A k \in 1..Len(calls[i].ret) :
                        Behaviour(heap, calls[i].ret[k]) = Behaviour(heap, calls[j].ret[k])

C8_Isolated ==
    /\ globals' = globals
    /\ \A i \in 1..Len(calls) : calls'[i] = calls[i]
    /\ \A i, j \in 1..Len(calls) :
          (i # j /\ \E id \in Reach(heap, calls[i].ret) : heap'[id] # heap[id])
              => \A id2 \in Reach(heap, calls[j].ret) : heap'[id2] = heap[id2]

\* C8: two make_st calls with the same arguments return step lists that
\* behave the same and share no object (step, age_range list or product);
\* make_st changes neither module-level state nor earlier calls' arguments
\* and results; a change to an object of one list leaves every object of
\* the other lists as it was.
C8_IndependentCascades == []C8_NoSharing /\ [][C8_Isolated]_vars

C8_Witness ==
    /\ Len(calls) >= 2
    /\ calls[1].args = calls[2].args
    /\ heap[calls[1].ret[5]].touched
    /\ ~heap[calls[2].ret[5]].touched
    /\ heap[heap[calls[1].ret[5]].product.ref].touched

====
